---- MODULE Spec2Model ----
(***************************************************************************)
(* Model of check_gpu_availability() in gpu_check.py: an ordered chain of  *)
(* GPU detection strategies (nvidia-smi, PyTorch, system_profiler/lspci).  *)
(* Text is modelled as sequences of one-character strings so that split,   *)
(* strip, startswith and substring tests are computed as Python does.      *)
(***************************************************************************)
EXTENDS Integers, Sequences, FiniteSets, TLC

\* Largest number of lines a mocked command prints.
MaxLines == 3
\* Largest device count the ML library reports.
MaxDevices == 2

(***************************** text helpers ********************************)

NL == "\n"

\* Characters removed by str.strip() with no argument.
Whitespace == {" ", "\t", "\n", "\r"}

RECURSIVE LStrip(_)
LStrip(s) == IF s = <<>> THEN s
             ELSE IF Head(s) \in Whitespace THEN LStrip(Tail(s)) ELSE s

RECURSIVE RStrip(_)
RStrip(s) == IF s = <<>> THEN s
             ELSE IF s[Len(s)] \in Whitespace THEN RStrip(SubSeq(s, 1, Len(s) - 1)) ELSE s

\* str.strip()
Strip(s) == RStrip(LStrip(s))

\* str.startswith(p)
StartsWith(s, p) == Len(s) >= Len(p) /\ SubSeq(s, 1, Len(p)) = p

\* p in s
Contains(s, p) == \E i \in 0..(Len(s) - Len(p)) : SubSeq(s, i + 1, i + Len(p)) = p

\* str.split('\n'): always at least one piece, a trailing newline gives a
\* trailing empty piece.
RECURSIVE Split(_)
Split(s) == IF \A i \in 1..Len(s) : s[i] # NL THEN <<s>>
            ELSE LET i == CHOOSE k \in 1..Len(s) :
                              s[k] = NL /\ \A j \in 1..(k - 1) : s[j] # NL
                 IN  <<SubSeq(s, 1, i - 1)>> \o Split(SubSeq(s, i + 1, Len(s)))

UpperLetters == <<"A","B","C","D","E","F","G","H","I","J","K","L","M",
                  "N","O","P","Q","R","S","T","U","V","W","X","Y","Z">>
LowerLetters == <<"a","b","c","d","e","f","g","h","i","j","k","l","m",
                  "n","o","p","q","r","s","t","u","v","w","x","y","z">>

\* str.lower()
Lower(s) == [i \in 1..Len(s) |->
               IF \E k \in 1..26 : UpperLetters[k] = s[i]
               THEN LowerLetters[CHOOSE k \in 1..26 : UpperLetters[k] = s[i]]
               ELSE s[i]]

(************************* literals of the program *************************)

PrefixGPU == <<"G", "P", "U">>
LabelChipset == <<"C", "h", "i", "p", "s", "e", "t", " ", "M", "o", "d", "e", "l", ":">>
SubVGA == <<"V", "G", "A">>
SubDisplay == <<"D", "i", "s", "p", "l", "a", "y">>
SysDarwin == <<"d", "a", "r", "w", "i", "n">>
SysLinux == <<"l", "i", "n", "u", "x">>

\* Python's None for result['method'].
None == "None"

(****************************** environment ********************************)

\* Values platform.system() returns.
PlatDarwin == <<"D", "a", "r", "w", "i", "n">>
PlatLinux == <<"L", "i", "n", "u", "x">>
PlatWindows == <<"W", "i", "n", "d", "o", "w", "s">>
PlatformNames == {PlatDarwin, PlatLinux, PlatWindows}

\* Lines a mocked `nvidia-smi -L` may print.
NvLineA == <<"G", "P", "U", " ", "0", ":", " ", "T", "4">>
NvLineB == <<"G", "P", "U", " ", "1", ":", " ", "T", "4">>
NvLineC == <<"\t", "G", "P", "U", " ", "2", ":", " ", "K", "8", "0", " ">>
NvLineD == <<"N", "o", " ", "G", "P", "U">>
NvidiaLines == {NvLineA, NvLineB, NvLineC, NvLineD}

\* Lines a mocked `system_profiler SPDisplaysDataType` may print.
SpLineA == <<" ", " ", "C", "h", "i", "p", "s", "e", "t", " ", "M", "o", "d", "e", "l", ":", " ", "M", "1">>
SpLineB == <<"C", "h", "i", "p", "s", "e", "t", " ", "M", "o", "d", "e", "l", ":", " ", "A", "M", "D">>
SpLineC == <<"D", "i", "s", "p", "l", "a", "y", "s", ":">>
SpLineD == <<"C", "h", "i", "p", "s", "e", "t", " ", "M", "o", "d", "e", "l">>
ProfilerLines == {SpLineA, SpLineB, SpLineC, SpLineD}

\* Lines a mocked `lspci` may print.
PciLineA == <<"0", "0", ":", "0", "2", ".", "0", " ", "V", "G", "A", " ", "c", "o", "m", "p", "a", "t", "i", "b", "l", "e", " ", "c", "o", "n", "t", "r", "o", "l", "l", "e", "r">>
PciLineB == <<"0", "1", ":", "0", "0", ".", "0", " ", "D", "i", "s", "p", "l", "a", "y", " ", "c", "o", "n", "t", "r", "o", "l", "l", "e", "r">>
PciLineC == <<"0", "0", ":", "1", "f", ".", "3", " ", "A", "u", "d", "i", "o", " ", "v", "g", "a">>
PciLineD == <<"\t", "V", "G", "A", " ">>
LspciLines == {PciLineA, PciLineB, PciLineC, PciLineD}

\* All sequences over S of length at most n.
SeqsUpTo(S, n) == UNION {[1..k -> S] : k \in 0..n}

\* The standard output of a command that printed the lines ls, each ended
\* by a newline.
RECURSIVE Unlines(_)
Unlines(ls) == IF ls = <<>> THEN <<>>
               ELSE Head(ls) \o <<NL>> \o Unlines(Tail(ls))

\* Outcomes of subprocess.check_output: the command is missing, exits
\* non-zero, or succeeds with some output.
CmdOutcomes(lines) ==
    {[exc |-> e, output |-> <<>>] : e \in {"FileNotFoundError", "CalledProcessError"}}
    \cup {[exc |-> "none", output |-> Unlines(ls)] : ls \in SeqsUpTo(lines, MaxLines)}

NotRun == [exc |-> "notrun", output |-> <<>>]

\* The ML library: absent, or present with its answers to is_available()
\* and device_count().
TorchEnvs ==
    {[present |-> FALSE, available |-> FALSE, count |-> 0]}
    \cup {[present |-> TRUE, available |-> a, count |-> c] :
            a \in BOOLEAN, c \in 0..MaxDevices}

Digits == <<"0", "1", "2", "3", "4", "5", "6", "7", "8", "9">>

\* torch.cuda.get_device_name(i)
DeviceName(i) == <<"c", "u", "d", "a", Digits[i + 1]>>

(************************** pieces of the function *************************)

\* Variant: the initial method is an empty string instead of None.
InitResult_m == [has_gpu |-> FALSE, gpu_count |-> 0, gpu_info |-> <<>>, method |-> ""]

InitResult == [has_gpu |-> FALSE, gpu_count |-> 0, gpu_info |-> <<>>, method |-> None]

\* [line.strip() for line in ls if line.strip().startswith('GPU')]
RECURSIVE NvidiaKeep(_)
NvidiaKeep(ls) ==
    IF ls = <<>> THEN <<>>
    ELSE (IF StartsWith(Strip(Head(ls)), PrefixGPU) THEN <<Strip(Head(ls))>> ELSE <<>>)
         \o NvidiaKeep(Tail(ls))

\* Variant: the filter strips, the collected value does not.
RECURSIVE NvidiaKeepRaw(_)
NvidiaKeepRaw(ls) ==
    IF ls = <<>> THEN <<>>
    ELSE (IF StartsWith(Strip(Head(ls)), PrefixGPU) THEN <<Head(ls)>> ELSE <<>>)
         \o NvidiaKeepRaw(Tail(ls))

NvidiaGpuLines_m(output) == NvidiaKeepRaw(Split(output))

NvidiaGpuLines(output) == NvidiaKeep(Split(output))

\* Variant: an empty list of GPU lines leaves the result untouched.
NvidiaResult_m(res, output) ==
    LET gpu_lines == NvidiaGpuLines(output)
    IN  IF gpu_lines = <<>> THEN res
        ELSE [res EXCEPT !.has_gpu = TRUE,
                         !.gpu_count = Len(gpu_lines),
                         !.gpu_info = gpu_lines,
                         !.method = "nvidia-smi"]

NvidiaResult(res, output) ==
    LET gpu_lines == NvidiaGpuLines(output)
    IN  [res EXCEPT !.has_gpu = Len(gpu_lines) > 0,
                    !.gpu_count = Len(gpu_lines),
                    !.gpu_info = gpu_lines,
                    !.method = "nvidia-smi"]

\* Variant: the except clause names CalledProcessError only.
NvidiaHandled_m == {"CalledProcessError"}

NvidiaHandled == {"CalledProcessError", "FileNotFoundError"}

\* Variant: the return after a successful nvidia-smi is missing.
AfterNvidia_m(exc) == IF exc = "none" \/ exc \in NvidiaHandled THEN "torch"
                      ELSE "raised"

\* Where control goes after the nvidia-smi attempt.
AfterNvidia(exc) == IF exc = "none" THEN "done"
                    ELSE IF exc \in NvidiaHandled THEN "torch"
                    ELSE "raised"

TorchHandled == {"ImportError"}

\* Variant: the PyTorch branch also requires a positive device count.
TorchReturns_m(t) == t.available /\ t.count > 0

\* The guard of the PyTorch branch.
TorchReturns(t) == t.available

TorchResult(res, t) ==
    [res EXCEPT !.has_gpu = TRUE,
                !.gpu_count = t.count,
                !.gpu_info = [i \in 1..t.count |-> DeviceName(i - 1)],
                !.method = "pytorch"]

\* Variant: `else` in place of `elif system == 'linux'`.
PlatformCommand_m(sys) == IF sys = SysDarwin THEN "system_profiler" ELSE "lspci"

\* The command strategy 3 runs for a value of `system`.
PlatformCommand(sys) == IF sys = SysDarwin THEN "system_profiler"
                        ELSE IF sys = SysLinux THEN "lspci"
                        ELSE "none"

ProfilerHasChipset(output) == Contains(output, LabelChipset)

\* the loop appending line.strip() for each line with 'Chipset Model:'
RECURSIVE ProfilerKeep(_)
ProfilerKeep(ls) ==
    IF ls = <<>> THEN <<>>
    ELSE (IF Contains(Head(ls), LabelChipset) THEN <<Strip(Head(ls))>> ELSE <<>>)
         \o ProfilerKeep(Tail(ls))

\* Variant: the line test is startswith instead of `in`.
RECURSIVE ProfilerKeepPrefix(_)
ProfilerKeepPrefix(ls) ==
    IF ls = <<>> THEN <<>>
    ELSE (IF StartsWith(Head(ls), LabelChipset) THEN <<Strip(Head(ls))>> ELSE <<>>)
         \o ProfilerKeepPrefix(Tail(ls))

ProfilerGpuLines_m(output) == ProfilerKeepPrefix(Split(output))

ProfilerGpuLines(output) == ProfilerKeep(Split(output))

ProfilerResult(res, output) ==
    LET gpu_lines == ProfilerGpuLines(output)
    IN  [res EXCEPT !.has_gpu = Len(gpu_lines) > 0,
                    !.gpu_count = Len(gpu_lines),
                    !.gpu_info = gpu_lines,
                    !.method = "system_profiler"]

ProfilerHandled == {"CalledProcessError", "FileNotFoundError"}

\* [line for line in ls if 'VGA' in line or 'Display' in line]
RECURSIVE LspciKeep(_)
LspciKeep(ls) ==
    IF ls = <<>> THEN <<>>
    ELSE (IF Contains(Head(ls), SubVGA) \/ Contains(Head(ls), SubDisplay)
          THEN <<Head(ls)>> ELSE <<>>)
         \o LspciKeep(Tail(ls))

\* Variant: only 'VGA' is looked for.
RECURSIVE LspciKeepVGA(_)
LspciKeepVGA(ls) ==
    IF ls = <<>> THEN <<>>
    ELSE (IF Contains(Head(ls), SubVGA) THEN <<Head(ls)>> ELSE <<>>)
         \o LspciKeepVGA(Tail(ls))

LspciGpuLines_m(output) == LspciKeepVGA(Split(output))

LspciGpuLines(output) == LspciKeep(Split(output))

LspciResult(res, output) ==
    LET gpu_lines == LspciGpuLines(output)
    IN  [res EXCEPT !.has_gpu = Len(gpu_lines) > 0,
                    !.gpu_count = Len(gpu_lines),
                    !.gpu_info = gpu_lines,
                    !.method = "lspci"]

LspciHandled == {"CalledProcessError", "FileNotFoundError"}

(********************************* state ***********************************)

VARIABLES
    platformName,  \* what platform.system() returns
    torch,         \* the ML library of the environment
    pc,            \* position in check_gpu_availability
    result,        \* the local dict `result`
    system,        \* the local `system`
    nvidia,        \* outcome of the nvidia-smi attempt
    platCmd,       \* outcome of the platform command attempt
    spawned,       \* commands spawned so far, in order
    torchCalls,    \* uses of the ML library so far, in order
    returnLine     \* line of the return statement taken, 0 before

vars == <<platformName, torch, pc, result, system, nvidia, platCmd,
          spawned, torchCalls, returnLine>>

Init ==
    /\ platformName \in PlatformNames
    /\ torch \in TorchEnvs
    /\ pc = "nvidia"
    /\ result = InitResult
    /\ system = <<>>
    /\ nvidia = NotRun
    /\ platCmd = NotRun
    /\ spawned = <<>>
    /\ torchCalls = <<>>
    /\ returnLine = 0

\* Lines 24-35: try nvidia-smi -L.
TryNvidiaSmi ==
    /\ pc = "nvidia"
    /\ \E r \in CmdOutcomes(NvidiaLines) :
        /\ nvidia' = r
        /\ spawned' = Append(spawned, "nvidia-smi")
        /\ pc' = AfterNvidia(r.exc)
        /\ IF r.exc = "none"
           THEN result' = NvidiaResult(result, r.output) /\ returnLine' = 33
           ELSE UNCHANGED <<result, returnLine>>
    /\ UNCHANGED <<platformName, torch, system, platCmd, torchCalls>>

\* Lines 38-47: try PyTorch.
TryPyTorch ==
    /\ pc = "torch"
    /\ IF ~torch.present
       THEN /\ torchCalls' = Append(torchCalls, "import torch")
            /\ pc' = IF "ImportError" \in TorchHandled THEN "system" ELSE "raised"
            /\ UNCHANGED <<result, returnLine>>
       ELSE IF TorchReturns(torch)
       THEN /\ torchCalls' = torchCalls
                  \o <<"import torch", "is_available", "device_count", "device_count">>
                  \o [i \in 1..torch.count |-> "get_device_name"]
            /\ result' = TorchResult(result, torch)
            /\ pc' = "done"
            /\ returnLine' = 45
       ELSE /\ torchCalls' = torchCalls \o <<"import torch", "is_available">>
            /\ pc' = "system"
            /\ UNCHANGED <<result, returnLine>>
    /\ UNCHANGED <<platformName, torch, system, nvidia, platCmd, spawned>>

\* Line 50: system = platform.system().lower()
ReadPlatform ==
    /\ pc = "system"
    /\ system' = Lower(platformName)
    /\ pc' = "platform"
    /\ UNCHANGED <<platformName, torch, result, nvidia, platCmd, spawned,
                   torchCalls, returnLine>>

\* Lines 52-68: macOS, system_profiler SPDisplaysDataType.
TrySystemProfiler ==
    /\ pc = "platform"
    /\ PlatformCommand(system) = "system_profiler"
    /\ \E r \in CmdOutcomes(ProfilerLines) :
        /\ platCmd' = r
        /\ spawned' = Append(spawned, "system_profiler")
        /\ IF r.exc = "none"
           THEN IF ProfilerHasChipset(r.output)
                THEN /\ result' = ProfilerResult(result, r.output)
                     /\ returnLine' = 66
                     /\ pc' = "done"
                ELSE /\ returnLine' = 84
                     /\ pc' = "done"
                     /\ UNCHANGED result
           ELSE IF r.exc \in ProfilerHandled
                THEN /\ returnLine' = 84
                     /\ pc' = "done"
                     /\ UNCHANGED result
                ELSE /\ pc' = "raised"
                     /\ UNCHANGED <<result, returnLine>>
    /\ UNCHANGED <<platformName, torch, system, nvidia, torchCalls>>

\* Lines 70-82: Linux, lspci.
TryLspci ==
    /\ pc = "platform"
    /\ PlatformCommand(system) = "lspci"
    /\ \E r \in CmdOutcomes(LspciLines) :
        /\ platCmd' = r
        /\ spawned' = Append(spawned, "lspci")
        /\ IF r.exc = "none"
           THEN /\ result' = LspciResult(result, r.output)
                /\ returnLine' = 80
                /\ pc' = "done"
           ELSE IF r.exc \in LspciHandled
                THEN /\ returnLine' = 84
                     /\ pc' = "done"
                     /\ UNCHANGED result
                ELSE /\ pc' = "raised"
                     /\ UNCHANGED <<result, returnLine>>
    /\ UNCHANGED <<platformName, torch, system, nvidia, torchCalls>>

\* Line 84 on a platform with no strategy 3.
NoPlatformQuery ==
    /\ pc = "platform"
    /\ PlatformCommand(system) = "none"
    /\ pc' = "done"
    /\ returnLine' = 84
    /\ UNCHANGED <<platformName, torch, result, system, nvidia, platCmd,
                   spawned, torchCalls>>

Next ==
    \/ TryNvidiaSmi
    \/ TryPyTorch
    \/ ReadPlatform
    \/ TrySystemProfiler
    \/ TryLspci
    \/ NoPlatformQuery

Spec == Init /\ [][Next]_vars

TypeOK ==
    /\ pc \in {"nvidia", "torch", "system", "platform", "done", "raised"}
    /\ returnLine \in {0, 33, 45, 66, 80, 84}
    /\ result.has_gpu \in BOOLEAN
    /\ result.gpu_count \in Nat

(**************************** stating the claims ***************************)

\* The two failure kinds of a command.
Failed == {"FileNotFoundError", "CalledProcessError"}

\* Positions of the newlines of an output.
SepPos(s) == {i \in 1..Len(s) : s[i] = NL}

\* Position of the k-th newline of s.
KthSep(s, k) == CHOOSE i \in SepPos(s) : Cardinality({j \in SepPos(s) : j < i}) = k - 1

\* The lines of an output: the pieces between consecutive newlines.
OutputLines(s) ==
    [k \in 1..(Cardinality(SepPos(s)) + 1) |->
        LET first == IF k = 1 THEN 1 ELSE KthSep(s, k - 1) + 1
            last  == IF k = Cardinality(SepPos(s)) + 1 THEN Len(s) ELSE KthSep(s, k) - 1
        IN  SubSeq(s, first, last)]

\* l without its leading and trailing whitespace.
Trimmed(l) ==
    LET solid == {i \in 1..Len(l) : l[i] \notin Whitespace}
    IN  IF solid = {} THEN <<>>
        ELSE SubSeq(l, CHOOSE i \in solid : \A j \in solid : i <= j,
                       CHOOSE i \in solid : \A j \in solid : i >= j)

\* p occurs in l at some position.
HasSub(l, p) ==
    \E i \in 1..Len(l) : \A j \in 1..Len(p) : i + j - 1 <= Len(l) /\ l[i + j - 1] = p[j]

\* l, leading whitespace aside, begins with GPU.
IsGpuLine(l) ==
    \E k \in 0..Len(l) : /\ \A j \in 1..k : l[j] \in Whitespace
                         /\ k + 3 <= Len(l)
                         /\ <<l[k + 1], l[k + 2], l[k + 3]>> = PrefixGPU

IsChipsetLine(l) == HasSub(l, LabelChipset)

IsDisplayLine(l) == HasSub(l, SubVGA) \/ HasSub(l, SubDisplay)

TrimAll(ls) == [i \in 1..Len(ls) |-> Trimmed(ls[i])]

\* C1: the returned result satisfies
\* has_gpu == (gpu_count > 0) == (len(gpu_info) > 0), whatever the platform
\* and the outcomes of the strategies.
C1_ResultInvariant ==
    pc = "done" =>
        /\ result.has_gpu = (result.gpu_count > 0)
        /\ (result.gpu_count > 0) = (Len(result.gpu_info) > 0)

\* C2: the call never ends in an exception: for every platform, every
\* failure kind of every command and the ML library absent or present, each
\* step is followed by another until a return statement hands back the dict.
C2_NeverRaises ==
    /\ pc # "raised"
    /\ pc # "done" => ENABLED Next
    /\ pc = "done" => /\ returnLine \in {33, 45, 66, 80, 84}
                      /\ DOMAIN result = {"has_gpu", "gpu_count", "gpu_info", "method"}

C2_Witness ==
    /\ pc = "done"
    /\ nvidia.exc = "FileNotFoundError"
    /\ torch.present
    /\ platCmd.exc = "CalledProcessError"

\* C3: whenever nvidia-smi succeeds the result carries method "nvidia-smi"
\* and the ML library is never used, and method "pytorch" is returned only
\* when the nvidia-smi attempt failed.
C3_NvidiaPriority ==
    /\ nvidia.exc = "none" =>
          /\ pc = "done"
          /\ returnLine = 33
          /\ result.method = "nvidia-smi"
          /\ torchCalls = <<>>
    /\ result.method = "pytorch" => nvidia.exc \in Failed

C3_Witness ==
    /\ pc = "done"
    /\ nvidia.exc = "none"
    /\ result.gpu_count > 0
    /\ torch.present /\ torch.available /\ torch.count > 0

\* C4: if nvidia-smi fails, the ML library is absent and the platform has
\* no command or its command fails, the result is exactly
\* {has_gpu: false, gpu_count: 0, gpu_info: [], method: null}.
C4_AllUnavailable ==
    ( /\ pc = "done"
      /\ nvidia.exc \in Failed
      /\ ~torch.present
      /\ \/ platformName \notin {PlatDarwin, PlatLinux}
         \/ platCmd.exc \in Failed )
    => result = [has_gpu |-> FALSE, gpu_count |-> 0, gpu_info |-> <<>>, method |-> "None"]

C4_Witness ==
    /\ pc = "done"
    /\ nvidia.exc = "CalledProcessError"
    /\ ~torch.present
    /\ platformName = PlatLinux
    /\ platCmd.exc = "FileNotFoundError"

\* C5: when nvidia-smi succeeds and none of its output lines begins
\* (whitespace aside) with GPU, the probe returns
\* {has_gpu: false, gpu_count: 0, gpu_info: [], method: "nvidia-smi"} and
\* neither the ML library nor a platform command is attempted.
C5_EmptyNvidiaFinal ==
    ( /\ nvidia.exc = "none"
      /\ \A k \in DOMAIN OutputLines(nvidia.output) : ~IsGpuLine(OutputLines(nvidia.output)[k]) )
    => /\ pc = "done"
       /\ result = [has_gpu |-> FALSE, gpu_count |-> 0, gpu_info |-> <<>>,
                    method |-> "nvidia-smi"]
       /\ torchCalls = <<>>
       /\ spawned = <<"nvidia-smi">>
       /\ platCmd = NotRun

C5_Witness ==
    /\ pc = "done"
    /\ nvidia.exc = "none"
    /\ nvidia.output = Unlines(<<NvLineD>>)
    /\ result.gpu_count = 0
    /\ torch.present /\ torch.available

\* C6 as stated: whenever strategy 2 is reached and the ML library is
\* present, the probe returns from strategy 2 and no platform command is
\* attempted, whatever the library answers.
C6_Original ==
    (pc = "done" /\ nvidia.exc \in Failed /\ torch.present)
    => /\ returnLine = 45
       /\ spawned = <<"nvidia-smi">>
       /\ platCmd = NotRun

\* C6 amended: whenever strategy 2 is reached with the library present and
\* is_available() true, the probe returns from strategy 2 with method
\* "pytorch" and no platform command is attempted, for every device count,
\* zero included; when is_available() is false nothing is returned from
\* strategy 2 and the chain goes on to strategy 3.
C6_Amended ==
    /\ (torchCalls # <<>> /\ torch.present /\ torch.available)
       => /\ pc = "done"
          /\ returnLine = 45
          /\ result.method = "pytorch"
          /\ result.gpu_count = torch.count
          /\ spawned = <<"nvidia-smi">>
          /\ platCmd = NotRun
    /\ (torchCalls # <<>> /\ torch.present /\ ~torch.available)
       => /\ returnLine # 45
          /\ result.method # "pytorch"
          /\ pc \in {"system", "platform", "done"}

C6_Witness ==
    /\ pc = "done"
    /\ returnLine = 45
    /\ torch.count = 0
    /\ result.gpu_count = 0

\* C7 as stated: when nvidia-smi succeeds, gpu_info is exactly the output
\* lines matching the GPU prefix, in order, gpu_count their number, has_gpu
\* true iff that number is positive and method "nvidia-smi".
C7_Original ==
    nvidia.exc = "none" =>
        LET matching == SelectSeq(OutputLines(nvidia.output), IsGpuLine)
        IN  /\ result.gpu_info = matching
            /\ result.gpu_count = Len(matching)
            /\ result.has_gpu = (Len(matching) > 0)
            /\ result.method = "nvidia-smi"

\* C7 amended: when nvidia-smi succeeds, gpu_info is the output lines that
\* begin with GPU once surrounding whitespace is removed, each with that
\* whitespace removed, in their original order; gpu_count is their number,
\* has_gpu is true iff it is positive and method is "nvidia-smi".
C7_Amended ==
    nvidia.exc = "none" =>
        LET matching == SelectSeq(OutputLines(nvidia.output), IsGpuLine)
        IN  /\ result.gpu_info = TrimAll(matching)
            /\ result.gpu_count = Len(matching)
            /\ result.has_gpu = (Len(matching) > 0)
            /\ result.method = "nvidia-smi"

C7_Witness ==
    /\ pc = "done"
    /\ nvidia.output = Unlines(<<NvLineA, NvLineD, NvLineB>>)
    /\ result = [has_gpu |-> TRUE, gpu_count |-> 2,
                 gpu_info |-> <<NvLineA, NvLineB>>, method |-> "nvidia-smi"]

\* C8 as stated: on darwin, when strategy 3 is reached and system_profiler
\* succeeds, for every output method is "system_profiler", gpu_count is the
\* number of lines containing "Chipset Model:" and gpu_info those lines.
C8_Original ==
    (pc = "done" /\ platformName = PlatDarwin /\ platCmd.exc = "none") =>
        LET matching == SelectSeq(OutputLines(platCmd.output), IsChipsetLine)
        IN  /\ result.method = "system_profiler"
            /\ result.gpu_count = Len(matching)
            /\ result.gpu_info = matching

\* C8 amended: on darwin, when strategy 3 is reached and system_profiler
\* succeeds with at least one output line containing "Chipset Model:",
\* method is "system_profiler", gpu_count is the number of such lines and
\* gpu_info is those lines in order, each without its surrounding
\* whitespace; when no line contains it the untouched initial result
\* (gpu_count 0, method null) is returned.
C8_Amended ==
    (pc = "done" /\ platformName = PlatDarwin /\ platCmd.exc = "none") =>
        LET matching == SelectSeq(OutputLines(platCmd.output), IsChipsetLine)
        IN  IF Len(matching) > 0
            THEN /\ result.method = "system_profiler"
                 /\ result.gpu_count = Len(matching)
                 /\ result.gpu_info = TrimAll(matching)
                 /\ result.has_gpu
            ELSE result = [has_gpu |-> FALSE, gpu_count |-> 0, gpu_info |-> <<>>,
                           method |-> "None"]

C8_Witness ==
    /\ pc = "done"
    /\ platformName = PlatDarwin
    /\ platCmd.output = Unlines(<<SpLineA, SpLineC, SpLineB>>)
    /\ result.gpu_count = 2
    /\ result.method = "system_profiler"

\* C9: on linux, when nvidia-smi fails either way, the ML library is absent
\* and lspci succeeds, method is "lspci", gpu_info is exactly the lspci
\* output lines containing "VGA" or "Display" in order, gpu_count their
\* number and has_gpu true iff that number is positive.
C9_Lspci ==
    ( /\ platformName = PlatLinux
      /\ nvidia.exc \in Failed
      /\ ~torch.present
      /\ platCmd.exc = "none" )
    => LET matching == SelectSeq(OutputLines(platCmd.output), IsDisplayLine)
       IN  /\ pc = "done"
           /\ result.method = "lspci"
           /\ result.gpu_info = matching
           /\ result.gpu_count = Len(matching)
           /\ result.has_gpu = (Len(matching) > 0)

C9_Witness ==
    /\ pc = "done"
    /\ platformName = PlatLinux
    /\ nvidia.exc = "FileNotFoundError"
    /\ ~torch.present
    /\ platCmd.output = Unlines(<<PciLineA>>)
    /\ result = [has_gpu |-> TRUE, gpu_count |-> 1, gpu_info |-> <<PciLineA>>,
                 method |-> "lspci"]

\* The platform command a platform name calls for, if any.
CommandsFor(name) == IF name = PlatDarwin THEN {"system_profiler"}
                     ELSE IF name = PlatLinux THEN {"lspci"}
                     ELSE {}

\* C10: each command is spawned at most once, nvidia-smi first, at most one
\* platform command and only the one of the platform, and every step goes
\* forward: a failed attempt is followed by the next strategy, never by the
\* same command again.
C10_NoRetrySequential ==
    /\ [](/\ Len(spawned) <= 2
          /\ spawned # <<>> => spawned[1] = "nvidia-smi"
          /\ Len(spawned) = 2 => spawned[2] \in CommandsFor(platformName)
          /\ platCmd # NotRun => Len(spawned) = 2)
    /\ [][/\ pc = "nvidia" =>
                /\ spawned' = <<"nvidia-smi">>
                /\ nvidia'.exc \in Failed => pc' = "torch"
          /\ pc = "torch" => spawned' = spawned /\ pc' \in {"system", "done"}
          /\ pc = "system" => spawned' = spawned /\ pc' = "platform"
          /\ pc = "platform" => pc' = "done" /\ Len(spawned') <= Len(spawned) + 1
          /\ pc \notin {"done", "raised"}]_vars

C10_Witness ==
    /\ pc = "done"
    /\ spawned = <<"nvidia-smi", "system_profiler">>
    /\ platCmd.exc = "FileNotFoundError"
====
